---------------------------- MODULE Spec2Model ----------------------------
(***************************************************************************)
(* Model of the request path of the personal-library service:             *)
(*   src/main.py  rate_limit_middleware, get_current_user, register,      *)
(*                login, read_root and the protected routes                *)
(*   src/auth.py  hash_password, verify_password, create_token,           *)
(*                verify_token                                             *)
(*   src/database/crud.py  create_user, authenticate_user, get_user_by_*, *)
(*                the Author/Book/Comment/Note functions, SimpleCache      *)
(*   src/main.py  the library routes (books, comments, notes, exports)     *)
(*                                                                         *)
(* Time is an integer number of clock units; TicksPerSecond units make    *)
(* one second, so that instants between two whole seconds exist (the      *)
(* token codec truncates to whole seconds, the rate limiter does not).    *)
(***************************************************************************)
EXTENDS Integers, Sequences, FiniteSets, TLC

VARIABLES
    now,                \* the wall clock read by datetime.now()/utcnow()
    ticks,              \* how many times the clock was advanced (bounded)
    rate_limit_cache,   \* main.py:80  client_ip -> <<requests, first_request>>
    admitted,           \* history: client_ip -> <<window_start, number of
                        \*   requests passed to call_next in that window>>
    users,              \* the User table: sequence of rows, row i has id i
    issued,             \* history: the last token a login returned, with
                        \*   the instant and the user it was issued for
    resp,               \* the response to the most recent request
    trace,              \* which stages the most recent request went through
    tasks,              \* concurrent requests: slot -> coroutine state
    running,            \* the coroutine holding the event loop (0: none)
    library,            \* the Author, Book, Comment and Note tables
    view,               \* the book data in the most recent response of a
                        \*   library route, with the user it was returned to
    simple_cache,       \* crud.py:29  cache = SimpleCache()
    cache_log           \* history: the last result of SimpleCache.get and,
                        \*   per key, the value and instant of the last set

vars == <<now, ticks, rate_limit_cache, admitted, users, issued, resp, trace,
          tasks, running, library, view, simple_cache, cache_log>>

\* the tables and the cache, which the account routes never touch
shelf == <<library, view, simple_cache, cache_log>>

---------------------------------------------------------------------------
(* Bounds of the model *)

\* clock units per second
TicksPerSecond == 2
\* how many times the clock advances in one behaviour
MaxTicks == 3
\* at most one client at a time has more than MaxLight requests in its window
MaxLight == 2
\* number of request coroutines that can be in flight together
MaxInflight == 2
\* requests one client sends in one window while tokens are followed in time
MaxBurst == 3

Clients == {"10.0.0.1", "10.0.0.2"}

---------------------------------------------------------------------------
(* Program constants *)

\* main.py:90  timedelta(minutes=1)
RATE_WINDOW_MINUTES == 1
\* main.py:91  requests >= 100
RATE_LIMIT == 100

Sec(n) == n * TicksPerSecond
Minutes(n) == Sec(60 * n)

RATE_WINDOW == Minutes(RATE_WINDOW_MINUTES)

---------------------------------------------------------------------------
(* Responses *)

NoHeaders == {}
BearerChallenge == {<<"WWW-Authenticate", "Bearer">>}

NoToken == [form |-> "none", key |-> "", user_id |-> 0, exp |-> 0]
NoBody == [id |-> 0, email |-> "", access_token |-> NoToken, token_type |-> ""]

\* an HTTPException / JSONResponse with {"detail": detail}
Response(status, detail, headers) ==
    [status |-> status, detail |-> detail, headers |-> headers, body |-> NoBody]

\* a 200 response carrying body
Ok(body) == [status |-> 200, detail |-> "", headers |-> NoHeaders, body |-> body]

\* main.py:92-95
TooManyRequests == Response(429, "Too many requests", NoHeaders)

\* what a request went through: call_next (main.py:102), verify_token
\* (main.py:107) and why it failed, reads and writes of the store, the body of
\* the route's function
NoTrace == [call_next |-> FALSE, verify_token |-> FALSE, cause |-> "",
            store_reads |-> 0, store_writes |-> 0, handler |-> FALSE]

EmptyDict == [k \in {} |-> <<0, 0>>]

\* dict assignment d[k] = v
DictSet(d, k, v) == [x \in (DOMAIN d) \cup {k} |-> IF x = k THEN v ELSE d[x]]

---------------------------------------------------------------------------
(* Rate limiter: main.py:83-103 *)

\* main.py:90  now - first_request < timedelta(minutes=1)
\* variant: <= for <, an instant exactly 1 minute after the window start still in the window
InWindowLoose(T, first_request) == T - first_request <= RATE_WINDOW
InWindow(T, first_request) == T - first_request < RATE_WINDOW

\* main.py:91  requests >= 100
\* variant: > for >=, one request more per window
OverLimitLoose(requests) == requests > RATE_LIMIT
OverLimit(requests) == requests >= RATE_LIMIT

\* main.py:88-100 on the entry read at lines 88-89: what is written back (if
\* anything) and whether the request goes on to call_next.
\* present: client_ip in rate_limit_cache; entry: rate_limit_cache[client_ip]
\* variant: a rejected request is counted too
RateDecisionCounting(present, entry, T) ==
    IF present
    THEN IF InWindow(T, entry[2])
         THEN IF OverLimit(entry[1])
              THEN [admit |-> FALSE, write |-> TRUE, entry |-> <<entry[1] + 1, entry[2]>>]
              ELSE [admit |-> TRUE, write |-> TRUE, entry |-> <<entry[1] + 1, entry[2]>>]
         ELSE [admit |-> TRUE, write |-> TRUE, entry |-> <<1, T>>]
    ELSE [admit |-> TRUE, write |-> TRUE, entry |-> <<1, T>>]
\* variant: a rejected request restarts the window
RateDecisionSliding(present, entry, T) ==
    IF present
    THEN IF InWindow(T, entry[2])
         THEN IF OverLimit(entry[1])
              THEN [admit |-> FALSE, write |-> TRUE, entry |-> <<entry[1], T>>]
              ELSE [admit |-> TRUE, write |-> TRUE, entry |-> <<entry[1] + 1, entry[2]>>]
         ELSE [admit |-> TRUE, write |-> TRUE, entry |-> <<1, T>>]
    ELSE [admit |-> TRUE, write |-> TRUE, entry |-> <<1, T>>]
RateDecision(present, entry, T) ==
    IF present
    THEN IF InWindow(T, entry[2])
         THEN IF OverLimit(entry[1])
              THEN [admit |-> FALSE, write |-> FALSE, entry |-> entry]
              ELSE [admit |-> TRUE, write |-> TRUE, entry |-> <<entry[1] + 1, entry[2]>>]
         ELSE [admit |-> TRUE, write |-> TRUE, entry |-> <<1, T>>]
    ELSE [admit |-> TRUE, write |-> TRUE, entry |-> <<1, T>>]

\* the entry as read at main.py:88-89 (an absent key reads as <<0, 0>>, which
\* RateDecision never looks at)
ReadEntry(cache, client_ip) ==
    IF client_ip \in DOMAIN cache THEN cache[client_ip] ELSE <<0, 0>>

\* main.py:84-100 run without interruption on table `cache`
\* variant: a write also drops the entries whose window is over
rate_limit_middlewareSweeping(cache, client_ip, T) ==
    LET d == RateDecision(client_ip \in DOMAIN cache, ReadEntry(cache, client_ip), T)
        live == {k \in DOMAIN cache : InWindow(T, cache[k][2])}
        kept == [k \in live |-> cache[k]]
    IN  [admit |-> d.admit,
         cache |-> IF d.write THEN DictSet(kept, client_ip, d.entry) ELSE cache]
rate_limit_middleware(cache, client_ip, T) ==
    LET d == RateDecision(client_ip \in DOMAIN cache, ReadEntry(cache, client_ip), T)
    IN  [admit |-> d.admit,
         cache |-> IF d.write THEN DictSet(cache, client_ip, d.entry) ELSE cache]

\* history: one more request of client_ip passed to call_next while the
\* client's entry (after the middleware) has window start ws
CountAdmitted(adm, client_ip, ws) ==
    IF client_ip \in DOMAIN adm /\ adm[client_ip][1] = ws
    THEN DictSet(adm, client_ip, <<ws, adm[client_ip][2] + 1>>)
    ELSE DictSet(adm, client_ip, <<ws, 1>>)

---------------------------------------------------------------------------
(* Credential hasher: auth.py:11-16 *)

Passwords == {"pw1", "pw2"}
Emails == {"a@x.com", "b@x.com"}

\* hashlib.sha256(password.encode()).hexdigest() on the passwords of the model
Sha256Hex(password) ==
    CASE password = "pw1" ->
           "c592df4a86933b92addc9842402ddf198c638ea9be58916ee6e3734e1e3152f8"
      [] password = "pw2" ->
           "93915a0a4bf8f634cb1856494dd4304472ad46b9827f541f76b6761c49cc55b0"
      [] password = "PW1" ->
           "d43bc6e7717bd1df1f02a987025518a42154c03761f2b4ff7fc07741641e748f"
      [] password = "pw1 " ->
           "a04d91d063fc0e0a18f2f6a13dd610fa2174bfea92a9c591240dee29fc54c179"
      [] password = "" ->
           "e3b0c44298fc1c149afbf4c8996fb92427ae41e4649b934ca495991b7852b855"

\* strings hashed beside the passwords users register with: another case,
\* a trailing blank, the empty string
HashInputs == Passwords \cup {"PW1", "pw1 ", ""}

\* auth.py:11-12
\* variant: the digest is taken before the password is fed to it
hash_passwordEmpty(password) == Sha256Hex("")
hash_password(password) == Sha256Hex(password)

\* auth.py:15-16
verify_password(plain_password, hashed_password) ==
    hash_password(plain_password) = hashed_password

---------------------------------------------------------------------------
(* Token codec: auth.py:6-38, with jose's jwt.encode / jwt.decode *)

\* auth.py:6
SECRET_KEY == "my-super-secret-key-12345-for-jwt-tokens"
OtherKey == "some-other-key"
\* auth.py:8
ACCESS_TOKEN_EXPIRE_MINUTES == 30

TTL == Minutes(ACCESS_TOKEN_EXPIRE_MINUTES)

\* timegm(dt.utctimetuple()): a datetime as whole seconds, fraction dropped
Timegm(T) == T \div TicksPerSecond

\* a string that is no three-segment JWS at all
GarbageToken == [form |-> "garbage", key |-> "", user_id |-> 0, exp |-> 0]

\* jwt.encode(claims, key, algorithm=HS256): the claims, signed with key; a
\* datetime "exp" is stored as whole seconds
jwt_encode(user_id, expire, key) ==
    [form |-> "jws", key |-> key, user_id |-> user_id, exp |-> Timegm(expire)]

\* auth.py:19-26
\* variant: the lifetime taken as 30 seconds
create_tokenSeconds(user_id, T) ==
    jwt_encode(user_id, T + Sec(ACCESS_TOKEN_EXPIRE_MINUTES), SECRET_KEY)
create_token(user_id, T) ==
    jwt_encode(user_id, T + Minutes(ACCESS_TOKEN_EXPIRE_MINUTES), SECRET_KEY)

\* jwt.decode(token, key, algorithms=[HS256]) at instant T: "ok", or the
\* cause of the JWTError it raises (JWSError on a string that does not parse
\* or whose signature does not verify, ExpiredSignatureError when
\* exp < timegm(utcnow()))
jwt_decode(token, key, T) ==
    IF token.form # "jws" THEN "malformed"
    ELSE IF token.key # key THEN "signature"
    ELSE IF token.exp < Timegm(T) THEN "expired"
    ELSE "ok"

\* auth.py:34-38
InvalidToken == Response(401, "Invalid token", BearerChallenge)

\* auth.py:29-38: the payload, or the HTTPException raised
\* variant: the detail names the cause of the failure
verify_tokenLeaky(token, T) ==
    LET cause == jwt_decode(token, SECRET_KEY, T)
    IN  IF cause = "ok"
        THEN [ok |-> TRUE, user_id |-> token.user_id, cause |-> cause,
              error |-> InvalidToken]
        ELSE [ok |-> FALSE, user_id |-> 0, cause |-> cause,
              error |-> Response(401, cause, BearerChallenge)]
verify_token(token, T) ==
    LET cause == jwt_decode(token, SECRET_KEY, T)
    IN  IF cause = "ok"
        THEN [ok |-> TRUE, user_id |-> token.user_id, cause |-> cause,
              error |-> InvalidToken]
        ELSE [ok |-> FALSE, user_id |-> 0, cause |-> cause,
              error |-> InvalidToken]

---------------------------------------------------------------------------
(* User store: models.py:5-9, crud.py:55-80 *)

\* what User.get returns when no row matches
None == [id |-> 0, email |-> "", hashed_password |-> ""]

Rows(db) == {db[i] : i \in 1..Len(db)}

\* crud.py:67-69  User.get(email=email)
get_user_by_email(db, email) ==
    IF \E u \in Rows(db) : u.email = email
    THEN CHOOSE u \in Rows(db) : u.email = email
    ELSE None

\* crud.py:71-73  User.get(id=user_id)
get_user_by_id(db, user_id) ==
    IF \E u \in Rows(db) : u.id = user_id
    THEN CHOOSE u \in Rows(db) : u.id = user_id
    ELSE None

\* crud.py:55-65: the user created (None when the email is taken) and the
\* table afterwards; id is the auto-increment primary key
\* variant: a taken email has its digest replaced
create_userOverwrite(db, email, password) ==
    IF get_user_by_email(db, email) # None
    THEN [user |-> None,
          db |-> [i \in 1..Len(db) |->
                    IF db[i].email = email
                    THEN [db[i] EXCEPT !.hashed_password = hash_password(password)]
                    ELSE db[i]]]
    ELSE LET user == [id |-> Len(db) + 1, email |-> email,
                      hashed_password |-> hash_password(password)]
         IN  [user |-> user, db |-> Append(db, user)]
create_user(db, email, password) ==
    IF get_user_by_email(db, email) # None
    THEN [user |-> None, db |-> db]
    ELSE LET user == [id |-> Len(db) + 1, email |-> email,
                      hashed_password |-> hash_password(password)]
         IN  [user |-> user, db |-> Append(db, user)]

\* crud.py:75-80
\* variant: the password is not compared
authenticate_userEmailOnly(db, email, password) ==
    get_user_by_email(db, email)
authenticate_user(db, email, password) ==
    LET user == get_user_by_email(db, email)
    IN  IF user = None \/ ~verify_password(password, user.hashed_password)
        THEN None
        ELSE user

---------------------------------------------------------------------------
(* Access gate: main.py:65, main.py:105-111 *)

NoCredentials == [scheme |-> "none", token |-> NoToken]
BasicCredentials == [scheme |-> "Basic", token |-> NoToken]
Bearer(token) == [scheme |-> "Bearer", token |-> token]

\* the FastAPI releases differ in what HTTPBearer() raises when the header is
\* absent or carries another scheme
Builds == {"forbidden", "unauthorized"}

\* main.py:65 security = HTTPBearer(): the exception raised for a request whose
\* Authorization header is absent or is not "Bearer <credentials>"
HTTPBearerError(cred, build) ==
    IF build = "unauthorized"
    THEN Response(401, "Not authenticated", BearerChallenge)
    ELSE IF cred.scheme = "none"
         THEN Response(403, "Not authenticated", NoHeaders)
         ELSE Response(403, "Invalid authentication credentials", NoHeaders)

\* main.py:110
InvalidUser == Response(401, "Invalid user", NoHeaders)

\* main.py:105-111 with its dependency: the user, or the exception raised
get_current_user(cred, db, T, build) ==
    IF cred.scheme # "Bearer"
    THEN [ok |-> FALSE, user |-> None, error |-> HTTPBearerError(cred, build),
          verify_token |-> FALSE, cause |-> "", store_reads |-> 0]
    ELSE LET payload == verify_token(cred.token, T)
             user == get_user_by_id(db, payload.user_id)
         IN  IF ~payload.ok
             THEN [ok |-> FALSE, user |-> None, error |-> payload.error,
                   verify_token |-> TRUE, cause |-> payload.cause,
                   store_reads |-> 0]
             ELSE IF user = None
             THEN [ok |-> FALSE, user |-> None, error |-> InvalidUser,
                   verify_token |-> TRUE, cause |-> payload.cause,
                   store_reads |-> 1]
             ELSE [ok |-> TRUE, user |-> user, error |-> InvalidUser,
                   verify_token |-> TRUE, cause |-> payload.cause,
                   store_reads |-> 1]

---------------------------------------------------------------------------
(* Routes *)

Request(route, cred, email, password) ==
    [route |-> route, cred |-> cred, email |-> email, password |-> password]

RootRequest == Request("/", NoCredentials, "", "")
GenresRequest(cred) == Request("/genres", cred, "", "")
RegisterRequest(email, password) == Request("/register", NoCredentials, email, password)
LoginRequest(email, password) == Request("/login", NoCredentials, email, password)

NoIssued == [token |-> NoToken, user_id |-> 0, at |-> 0]

\* the outcome of a route: the response, the store and the issued-token
\* history afterwards, and what ran
Outcome(response, db, iss, tr) ==
    [response |-> response, users |-> db, issued |-> iss, trace |-> tr]

\* main.py:522-524
read_root(db, iss) ==
    Outcome(Ok(NoBody), db, iss, [NoTrace EXCEPT !.handler = TRUE])

\* main.py:375-379: a protected route (every route but /, /register and
\* /login takes current_user = Depends(get_current_user))
get_genres(cred, db, iss, T, build) ==
    LET g == get_current_user(cred, db, T, build)
        tr == [NoTrace EXCEPT !.verify_token = g.verify_token,
                              !.cause = g.cause,
                              !.store_reads = g.store_reads]
    IN  IF ~g.ok
        THEN Outcome(g.error, db, iss, tr)
        ELSE Outcome(Ok(NoBody), db, iss,
                     [tr EXCEPT !.handler = TRUE,
                                !.store_reads = g.store_reads + 1])

\* main.py:115-121
register(email, password, db, iss) ==
    LET c == create_user(db, email, password)
        tr == [NoTrace EXCEPT !.handler = TRUE, !.store_reads = 1,
                              !.store_writes = IF c.db = db THEN 0 ELSE 1]
    IN  IF c.user = None
        THEN Outcome(Response(400, "Email already registered", NoHeaders),
                     c.db, iss, tr)
        ELSE Outcome(Ok([NoBody EXCEPT !.id = c.user.id, !.email = c.user.email]),
                     c.db, iss, tr)

\* main.py:124-131
login(email, password, db, iss, T) ==
    LET user == authenticate_user(db, email, password)
        token == create_token(user.id, T)
        tr == [NoTrace EXCEPT !.handler = TRUE, !.store_reads = 1]
    IN  IF user = None
        THEN Outcome(Response(401, "Invalid credentials", NoHeaders), db, iss, tr)
        ELSE Outcome(Ok([NoBody EXCEPT !.access_token = token,
                                       !.token_type = "bearer"]),
                     db, [token |-> token, user_id |-> user.id, at |-> T], tr)

\* main.py:102 call_next(request): routing, dependencies and the route
call_next(rq, db, iss, T, build) ==
    LET out == CASE rq.route = "/" -> read_root(db, iss)
                 [] rq.route = "/genres" -> get_genres(rq.cred, db, iss, T, build)
                 [] rq.route = "/register" -> register(rq.email, rq.password, db, iss)
                 [] rq.route = "/login" -> login(rq.email, rq.password, db, iss, T)
    IN  [out EXCEPT !.trace.call_next = TRUE]

\* before the first request there is no response (status 0)
\* seen: the entry of the client that the middleware read at main.py:88-89
NoSeen == [present |-> FALSE, entry |-> <<0, 0>>]
NoResp == [client |-> "", request |-> RootRequest, seen |-> NoSeen,
           response |-> Response(0, "", NoHeaders)]

---------------------------------------------------------------------------
(* The library tables: src/database/models.py and src/database/crud.py *)

\* rows kept in the Book table
MaxBooks == 2
\* rows kept in the Comment table, and in the Note table
MaxNotes == 1

\* models.py:15-54: authors have ids 1..authors; row i of a table has id i
EmptyLibrary == [authors |-> 0, books |-> <<>>, comments |-> <<>>,
                 notes |-> <<>>]

NoBook == [id |-> 0, author |-> 0, owner |-> 0]
NoComment == [id |-> 0, book |-> 0, user |-> 0]

\* crud.py:83-87
crud_create_author(lib) == [lib EXCEPT !.authors = lib.authors + 1]

\* crud.py:127-129  Book.get(id=book_id)
crud_get_book(lib, book_id) ==
    IF book_id \in 1..Len(lib.books) THEN lib.books[book_id] ELSE NoBook

\* crud.py:115-125
crud_create_book(lib, db, author_id, owner_id) ==
    IF author_id \notin 1..lib.authors \/ get_user_by_id(db, owner_id) = None
    THEN [book |-> NoBook, lib |-> lib]
    ELSE LET book == [id |-> Len(lib.books) + 1, author |-> author_id,
                      owner |-> owner_id]
         IN  [book |-> book, lib |-> [lib EXCEPT !.books = Append(@, book)]]

\* crud.py:131-134
get_user_books(lib, user_id) ==
    SelectSeq(lib.books, LAMBDA b : b.owner = user_id)

\* crud.py:159-167
crud_create_comment(lib, db, book_id, user_id) ==
    IF crud_get_book(lib, book_id) = NoBook \/ get_user_by_id(db, user_id) = None
    THEN [comment |-> NoComment, lib |-> lib]
    ELSE LET comment == [id |-> Len(lib.comments) + 1, book |-> book_id,
                         user |-> user_id]
         IN  [comment |-> comment,
              lib |-> [lib EXCEPT !.comments = Append(@, comment)]]

\* crud.py:169-172
crud_get_book_comments(lib, book_id) ==
    SelectSeq(lib.comments, LAMBDA c : c.book = book_id)

\* crud.py:183-191
crud_create_note(lib, db, book_id, user_id) ==
    IF crud_get_book(lib, book_id) = NoBook \/ get_user_by_id(db, user_id) = None
    THEN [note |-> NoComment, lib |-> lib]
    ELSE LET note == [id |-> Len(lib.notes) + 1, book |-> book_id,
                      user |-> user_id]
         IN  [note |-> note, lib |-> [lib EXCEPT !.notes = Append(@, note)]]

---------------------------------------------------------------------------
(* The library routes of src/main.py, after get_current_user has resolved  *)
(* current_user.  books is the sequence of Book rows serialized into the    *)
(* response body, nested ones included.                                     *)

Reply(status, detail, books, lib) ==
    [status |-> status, detail |-> detail, books |-> books, lib |-> lib]

\* main.py:134-139
create_author(current_user, lib) ==
    Reply(200, "", <<>>, crud_create_author(lib))

\* main.py:142-154
create_book(author_id, current_user, lib, db) ==
    LET c == crud_create_book(lib, db, author_id, current_user.id)
    IN  IF c.book = NoBook
        THEN Reply(404, "Author not found", <<>>, c.lib)
        ELSE Reply(200, "", <<c.book>>, c.lib)

\* main.py:157-194
create_comment(book_id, current_user, lib, db) ==
    LET c == crud_create_comment(lib, db, book_id, current_user.id)
    IN  IF c.comment = NoComment
        THEN Reply(404, "Book not found", <<>>, c.lib)
        ELSE Reply(200, "", <<crud_get_book(c.lib, c.comment.book)>>, c.lib)

\* main.py:202-238
create_note(book_id, current_user, lib, db) ==
    LET c == crud_create_note(lib, db, book_id, current_user.id)
    IN  IF c.note = NoComment
        THEN Reply(404, "Book not found", <<>>, c.lib)
        ELSE Reply(200, "", <<crud_get_book(c.lib, c.note.book)>>, c.lib)

\* main.py:253-276
get_books(current_user, lib) ==
    Reply(200, "", get_user_books(lib, current_user.id), lib)

\* main.py:280-328: author 0 stands for no author_name filter
get_books_filtered(author_id, current_user, lib) ==
    LET books == SelectSeq(lib.books, LAMBDA b : b.owner = current_user.id)
    IN  Reply(200, "",
              IF author_id # 0
              THEN SelectSeq(books, LAMBDA b : b.author = author_id)
              ELSE books,
              lib)

\* main.py:331-356
get_book(book_id, current_user, lib) ==
    LET book == crud_get_book(lib, book_id)
    IN  IF book = NoBook
        THEN Reply(404, "Book not found", <<>>, lib)
        ELSE IF book.owner # current_user.id
        THEN Reply(403, "Not your book", <<>>, lib)
        ELSE Reply(200, "", <<book>>, lib)

\* main.py:382-415: one serialized book per comment of the book
get_book_comments(book_id, current_user, lib) ==
    LET comments == crud_get_book_comments(lib, book_id)
    IN  Reply(200, "",
              [i \in 1..Len(comments) |-> crud_get_book(lib, comments[i].book)],
              lib)

\* main.py:457-483
export_books_csv(current_user, lib) ==
    Reply(200, "", get_user_books(lib, current_user.id), lib)

\* main.py:486-503
export_books_json(current_user, lib) ==
    Reply(200, "", get_user_books(lib, current_user.id), lib)

\* a request to a library route
BookRequest(route, cred, book_id, author_id) ==
    [route |-> route, cred |-> cred, book_id |-> book_id,
     author_id |-> author_id]

\* the route selected by the path of rq, run for current_user
library_route(rq, current_user, lib, db) ==
    CASE rq.route = "POST /authors" -> create_author(current_user, lib)
      [] rq.route = "POST /books" ->
            create_book(rq.author_id, current_user, lib, db)
      [] rq.route = "POST /comments" ->
            create_comment(rq.book_id, current_user, lib, db)
      [] rq.route = "POST /notes" ->
            create_note(rq.book_id, current_user, lib, db)
      [] rq.route = "GET /books" -> get_books(current_user, lib)
      [] rq.route = "GET /books/filter" ->
            get_books_filtered(rq.author_id, current_user, lib)
      [] rq.route = "GET /books/{book_id}" ->
            get_book(rq.book_id, current_user, lib)
      [] rq.route = "GET /books/{book_id}/comments" ->
            get_book_comments(rq.book_id, current_user, lib)
      [] rq.route = "GET /export/books/csv" ->
            export_books_csv(current_user, lib)
      [] rq.route = "GET /export/books/json" ->
            export_books_json(current_user, lib)

\* before the first library response: returned to nobody (user 0)
NoView == [user |-> 0, route |-> "", book_id |-> 0, status |-> 0,
           books |-> <<>>]

---------------------------------------------------------------------------
(* SimpleCache: src/database/crud.py:11-52 *)

\* crud.py:18  timedelta(minutes=5)
CACHE_MINUTES == 5

CACHE_TTL == Minutes(CACHE_MINUTES)

\* crud.py:12-14  __init__
SimpleCache == [cache |-> EmptyDict, timestamps |-> EmptyDict]

\* del d[k]
DictDel(d, k) == [x \in DOMAIN d \ {k} |-> d[x]]

\* what get returns: None, or a cached value; raised is "KeyError" when the
\* lookup self._timestamps[key] fails
CacheNone == [none |-> TRUE, value |-> <<>>, raised |-> ""]
CacheValue(value) == [none |-> FALSE, value |-> value, raised |-> ""]
CacheKeyError == [none |-> TRUE, value |-> <<>>, raised |-> "KeyError"]

\* crud.py:16-23
\* variant: an expired key is deleted from _cache only
SimpleCache_getKeepsTimestamp(self, key, T) ==
    IF key \in DOMAIN self.cache
    THEN IF key \notin DOMAIN self.timestamps
         THEN [ret |-> CacheKeyError, self |-> self]
         ELSE IF T - self.timestamps[key] < CACHE_TTL
         THEN [ret |-> CacheValue(self.cache[key]), self |-> self]
         ELSE [ret |-> CacheNone,
               self |-> [cache |-> DictDel(self.cache, key),
                         timestamps |-> self.timestamps]]
    ELSE [ret |-> CacheNone, self |-> self]
SimpleCache_get(self, key, T) ==
    IF key \in DOMAIN self.cache
    THEN IF key \notin DOMAIN self.timestamps
         THEN [ret |-> CacheKeyError, self |-> self]
         ELSE IF T - self.timestamps[key] < CACHE_TTL
         THEN [ret |-> CacheValue(self.cache[key]), self |-> self]
         ELSE [ret |-> CacheNone,
               self |-> [cache |-> DictDel(self.cache, key),
                         timestamps |-> DictDel(self.timestamps, key)]]
    ELSE [ret |-> CacheNone, self |-> self]

\* crud.py:25-27
SimpleCache_set(self, key, value, T) ==
    [cache |-> DictSet(self.cache, key, value),
     timestamps |-> DictSet(self.timestamps, key, T)]

\* list(Author.select()): the ids of the Author rows
AllAuthors(lib) == [i \in 1..lib.authors |-> i]

\* crud.py:32-41: the list returned and the cache afterwards; an empty cached
\* list is falsy and is fetched again
get_all_authors_cached(self, lib, T) ==
    LET cached == SimpleCache_get(self, "all_authors", T)
        authors == AllAuthors(lib)
    IN  IF ~cached.ret.none /\ cached.ret.value # <<>>
        THEN [authors |-> cached.ret.value, got |-> cached.ret,
              self |-> cached.self, stored |-> FALSE]
        ELSE [authors |-> authors, got |-> cached.ret,
              self |-> SimpleCache_set(cached.self, "all_authors", authors, T),
              stored |-> TRUE]

\* history kept for the cache: the last get (key, result, instant) and, per
\* key, the value and instant of the last set
NoCacheLog == [got |-> [key |-> "", ret |-> CacheNone, at |-> 0,
                        present |-> FALSE],
               sets |-> EmptyDict]

---------------------------------------------------------------------------
(* The state after start-up and the steps *)

Slots == 1..MaxInflight

\* a request coroutine of rate_limit_middleware: where it stands and its
\* locals client_ip, now and (requests, first_request)
IdleTask == [pc |-> "idle", client_ip |-> "", now |-> 0,
             present |-> FALSE, entry |-> <<0, 0>>]

Init ==
    /\ now = 0
    /\ ticks = 0
    /\ rate_limit_cache = EmptyDict
    /\ admitted = EmptyDict
    /\ users = <<>>
    /\ issued = NoIssued
    /\ resp = NoResp
    /\ trace = NoTrace
    /\ tasks = [r \in Slots |-> IdleTask]
    /\ running = 0
    /\ library = EmptyLibrary
    /\ view = NoView
    /\ simple_cache = SimpleCache
    /\ cache_log = NoCacheLog

\* the clock advances by d units
Tick(d) ==
    /\ ticks < MaxTicks
    /\ now' = now + d
    /\ ticks' = ticks + 1
    /\ UNCHANGED <<rate_limit_cache, admitted, users, issued, resp, trace,
                   tasks, running>>
    /\ UNCHANGED shelf

\* One request from client_ip handled from the middleware to the response,
\* with no other request in between: main.py:84-103.
\* variant: the access gate answers before the limiter counts
HttpRequestGateFirst(client_ip, rq, build) ==
    LET out == call_next(rq, users, issued, now, build)
        gated == out.response.status \in {401, 403}
        rl == IF gated
              THEN [admit |-> TRUE, cache |-> rate_limit_cache]
              ELSE rate_limit_middleware(rate_limit_cache, client_ip, now)
        seen == [present |-> client_ip \in DOMAIN rate_limit_cache,
                 entry |-> ReadEntry(rate_limit_cache, client_ip)]
    IN  /\ rate_limit_cache' = rl.cache
        /\ IF rl.admit
           THEN /\ admitted' = IF gated THEN admitted
                               ELSE CountAdmitted(admitted, client_ip,
                                                  rl.cache[client_ip][2])
                /\ users' = out.users
                /\ issued' = out.issued
                /\ resp' = [client |-> client_ip, request |-> rq, seen |-> seen,
                            response |-> out.response]
                /\ trace' = out.trace
           ELSE /\ resp' = [client |-> client_ip, request |-> rq, seen |-> seen,
                            response |-> TooManyRequests]
                /\ trace' = NoTrace
                /\ UNCHANGED <<admitted, users, issued>>
        /\ UNCHANGED <<now, ticks, tasks, running>>
        /\ UNCHANGED shelf
HttpRequest(client_ip, rq, build) ==
    LET rl == rate_limit_middleware(rate_limit_cache, client_ip, now)
        out == call_next(rq, users, issued, now, build)
        seen == [present |-> client_ip \in DOMAIN rate_limit_cache,
                 entry |-> ReadEntry(rate_limit_cache, client_ip)]
    IN  /\ rate_limit_cache' = rl.cache
        /\ IF rl.admit
           THEN /\ admitted' = CountAdmitted(admitted, client_ip,
                                             rl.cache[client_ip][2])
                /\ users' = out.users
                /\ issued' = out.issued
                /\ resp' = [client |-> client_ip, request |-> rq, seen |-> seen,
                            response |-> out.response]
                /\ trace' = out.trace
           ELSE /\ resp' = [client |-> client_ip, request |-> rq, seen |-> seen,
                            response |-> TooManyRequests]
                /\ trace' = NoTrace
                /\ UNCHANGED <<admitted, users, issued>>
        /\ UNCHANGED <<now, ticks, tasks, running>>
        /\ UNCHANGED shelf

\* the number of requests counted for client_ip in its entry (0: no entry)
Requests(client_ip) ==
    IF client_ip \in DOMAIN rate_limit_cache
    THEN rate_limit_cache[client_ip][1]
    ELSE 0

\* traffic explored: a client may go past MaxLight requests in its window only
\* while no other client has
CanSend(client_ip) ==
    \/ Requests(client_ip) < MaxLight
    \/ \A other \in Clients \ {client_ip} : Requests(other) <= MaxLight

---------------------------------------------------------------------------
(* Spec: the rate limiter under sequential requests of two clients *)

RateSteps == {1, RATE_WINDOW - 1}

RootTraffic ==
    \E client_ip \in Clients :
        /\ CanSend(client_ip)
        /\ HttpRequest(client_ip, RootRequest, "unauthorized")

RateClock == \E d \in RateSteps : Tick(d)

Next == RootTraffic \/ RateClock

Spec == Init /\ [][Next]_vars

---------------------------------------------------------------------------
(* Properties of the rate limiter under Spec *)

\* C1: every stored count is between 1 and 100, the number of requests
\* passed to call_next in a client's window is exactly the stored count (so
\* never more than 100), and a request is answered 429 only once 100
\* requests of that window were admitted.
C1_AtMostLimitPerWindow ==
    /\ \A c \in DOMAIN rate_limit_cache :
          /\ 1 <= rate_limit_cache[c][1]
          /\ rate_limit_cache[c][1] <= 100
          /\ c \in DOMAIN admitted
          /\ admitted[c] = <<rate_limit_cache[c][2], rate_limit_cache[c][1]>>
          /\ admitted[c][2] <= 100
    /\ resp.response.status = 429 =>
          /\ ~trace.call_next
          /\ admitted[resp.client][2] = 100
    /\ resp.response.status \notin {0, 429} => trace.call_next

\* the 101st request of a window was rejected after 100 were admitted
C1_Witness ==
    /\ resp.response.status = 429
    /\ admitted[resp.client][2] = 100
    /\ now - admitted[resp.client][1] < 60 * TicksPerSecond

\* C3: a request arriving 1 minute or more after the entry's window start
\* is admitted whatever the count, and the entry becomes (1, now).
C3_HardReset ==
    [][\A c \in Clients :
          ( /\ c \in DOMAIN rate_limit_cache
            /\ now - rate_limit_cache[c][2] >= 60 * TicksPerSecond
            /\ HttpRequest(c, RootRequest, "unauthorized") )
          => /\ rate_limit_cache'[c] = <<1, now>>
             /\ trace'.call_next
             /\ resp'.response.status = 200
             /\ admitted'[c] = <<now, 1>>]_vars

\* a client at count 100 was reset exactly 1 minute after its window start
C3_Witness ==
    /\ resp.seen.present
    /\ resp.seen.entry[1] = 100
    /\ now - resp.seen.entry[2] = 60 * TicksPerSecond
    /\ rate_limit_cache[resp.client] = <<1, now>>
    /\ resp.response.status = 200

\* C4: a rejected request gets 429 {"detail": "Too many requests"}, is not
\* passed on, and leaves the whole table (and the admissions) as they were.
C4_RejectLeavesTable ==
    [][\A c \in Clients :
          ( /\ c \in DOMAIN rate_limit_cache
            /\ now - rate_limit_cache[c][2] < 60 * TicksPerSecond
            /\ rate_limit_cache[c][1] >= 100
            /\ HttpRequest(c, RootRequest, "unauthorized") )
          => /\ resp'.response.status = 429
             /\ resp'.response.detail = "Too many requests"
             /\ ~trace'.call_next
             /\ ~trace'.handler
             /\ rate_limit_cache' = rate_limit_cache
             /\ admitted' = admitted]_vars

\* a rejection happened while another client had an entry of its own
C4_Witness ==
    /\ resp.response.status = 429
    /\ resp.seen.entry[1] = 100
    /\ \E other \in DOMAIN rate_limit_cache :
          other # resp.client /\ rate_limit_cache[other][1] >= 1

---------------------------------------------------------------------------
(* SpecConc: requests in flight together on the one event loop *)

\* Where a coroutine of rate_limit_middleware gives the event loop to the
\* others: main.py:102 is the only await of main.py:84-103, and a coroutine
\* that returned (main.py:92, main.py:103) is gone.  Lines 85-100 hold none.
\* variant: the coroutine can be suspended between any two lines
SuspendsAtEveryLine(pc) == TRUE
Suspends(pc) == pc \in {"call_next", "idle"}

\* a request of client_ip arrives: its coroutine is created
Arrive(r, client_ip) ==
    /\ tasks[r].pc = "idle"
    /\ tasks' = [tasks EXCEPT ![r] = [IdleTask EXCEPT !.pc = "start",
                                                      !.client_ip = client_ip]]
    /\ UNCHANGED <<now, ticks, rate_limit_cache, admitted, users, issued,
                   resp, trace, running>>
    /\ UNCHANGED shelf

\* main.py:85-89: client_ip, now and the entry are read into locals
MwRead(r) ==
    /\ tasks[r].pc = "start"
    /\ running \in {0, r}
    /\ tasks' = [tasks EXCEPT ![r] =
                   [pc |-> "decide", client_ip |-> tasks[r].client_ip,
                    now |-> now,
                    present |-> tasks[r].client_ip \in DOMAIN rate_limit_cache,
                    entry |-> ReadEntry(rate_limit_cache, tasks[r].client_ip)]]
    /\ running' = IF Suspends("decide") THEN 0 ELSE r
    /\ UNCHANGED <<now, ticks, rate_limit_cache, admitted, users, issued,
                   resp, trace>>
    /\ UNCHANGED shelf

\* main.py:90-100: the test on the locals and the write-back; then either
\* the 429 is returned (main.py:92-95) or call_next is awaited (main.py:102)
MwDecide(r) ==
    LET t == tasks[r]
        d == RateDecision(t.present, t.entry, t.now)
        pc2 == IF d.admit THEN "call_next" ELSE "idle"
    IN  /\ t.pc = "decide"
        /\ running \in {0, r}
        /\ rate_limit_cache' = IF d.write
                               THEN DictSet(rate_limit_cache, t.client_ip, d.entry)
                               ELSE rate_limit_cache
        /\ IF d.admit
           THEN /\ admitted' = CountAdmitted(admitted, t.client_ip, d.entry[2])
                /\ tasks' = [tasks EXCEPT ![r] =
                               [IdleTask EXCEPT !.pc = "call_next",
                                                !.client_ip = t.client_ip]]
                /\ UNCHANGED <<resp, trace>>
           ELSE /\ tasks' = [tasks EXCEPT ![r] = IdleTask]
                /\ resp' = [client |-> t.client_ip, request |-> RootRequest,
                            seen |-> [present |-> t.present, entry |-> t.entry],
                            response |-> TooManyRequests]
                /\ trace' = NoTrace
                /\ UNCHANGED admitted
        /\ running' = IF Suspends(pc2) THEN 0 ELSE r
        /\ UNCHANGED <<now, ticks, users, issued>>
        /\ UNCHANGED shelf

\* main.py:102-103: the route has answered, the coroutine resumes and returns
Complete(r) ==
    LET out == call_next(RootRequest, users, issued, now, "unauthorized")
    IN  /\ tasks[r].pc = "call_next"
        /\ running = 0
        /\ resp' = [client |-> tasks[r].client_ip, request |-> RootRequest,
                    seen |-> NoSeen, response |-> out.response]
        /\ trace' = out.trace
        /\ tasks' = [tasks EXCEPT ![r] = IdleTask]
        /\ UNCHANGED <<now, ticks, rate_limit_cache, admitted, users, issued,
                       running>>
        /\ UNCHANGED shelf

ConcClients == {"10.0.0.1"}

ConcArrive == \E r \in Slots : \E client_ip \in ConcClients : Arrive(r, client_ip)
ConcRead == \E r \in Slots : MwRead(r)
ConcDecide == \E r \in Slots : MwDecide(r)
ConcComplete == \E r \in Slots : Complete(r)
ConcClock == \E d \in RateSteps : Tick(d)

NextConc == ConcArrive \/ ConcRead \/ ConcDecide \/ ConcComplete \/ ConcClock

SpecConc == Init /\ [][NextConc]_vars

\* C2: with requests of one client in flight together, no interleaving admits
\* more than 100 of them in one window, because no other request runs between
\* a request's read of the entry and its write-back: a request that has read
\* still holds the entry as the table has it, and it is the only such request.
C2_NoOverAdmission ==
    /\ \A c \in DOMAIN admitted : admitted[c][2] <= 100
    /\ \A c \in DOMAIN rate_limit_cache : rate_limit_cache[c][1] <= 100
    /\ \A r \in Slots :
          tasks[r].pc = "decide" =>
             /\ tasks[r].present = (tasks[r].client_ip \in DOMAIN rate_limit_cache)
             /\ tasks[r].entry = ReadEntry(rate_limit_cache, tasks[r].client_ip)
             /\ \A q \in Slots \ {r} : tasks[q].pc # "decide"

\* a request of a client was rejected on a full window while an admitted
\* request of the same client was still in flight
C2_Witness ==
    \E r \in Slots :
        /\ tasks[r].pc = "call_next"
        /\ Requests(tasks[r].client_ip) = 100
        /\ admitted[tasks[r].client_ip][2] = 100
        /\ resp.response.status = 429
        /\ resp.client = tasks[r].client_ip
        /\ resp.seen.entry = rate_limit_cache[resp.client]

---------------------------------------------------------------------------
(* SpecGate: one client sending /register, /login and protected requests *)

GateClient == "10.0.0.1"
GateEmail == "a@x.com"
GatePassword == "pw1"

\* a token signed with SECRET_KEY naming an id no row of the store has
UnknownUserToken == create_token(2, 0)
\* a token of user 1 signed with another key
ForgedToken == jwt_encode(1, Minutes(ACCESS_TOKEN_EXPIRE_MINUTES), OtherKey)
\* a token of user 1 issued more than 30 minutes before the clock's origin
StaleToken == create_token(1, 0 - Minutes(ACCESS_TOKEN_EXPIRE_MINUTES) - Sec(1))

\* the bearer tokens the client sends, the last login's token among them
GateTokens ==
    {GarbageToken, ForgedToken, StaleToken, UnknownUserToken}
    \cup (IF issued = NoIssued THEN {} ELSE {issued.token})

\* the Authorization headers the client sends
GateCredentials ==
    {NoCredentials, BasicCredentials} \cup {Bearer(token) : token \in GateTokens}

GateRequests ==
    {RegisterRequest(GateEmail, GatePassword), LoginRequest(GateEmail, GatePassword)}
    \cup {GenresRequest(cred) : cred \in GateCredentials}

\* the build does not matter to a request that carries a bearer token
GateBearer ==
    \E token \in GateTokens :
        HttpRequest(GateClient, GenresRequest(Bearer(token)), "unauthorized")

GateNoBearer ==
    \E cred \in {NoCredentials, BasicCredentials} : \E build \in Builds :
        HttpRequest(GateClient, GenresRequest(cred), build)

GateRegister ==
    HttpRequest(GateClient, RegisterRequest(GateEmail, GatePassword), "unauthorized")

GateLogin ==
    HttpRequest(GateClient, LoginRequest(GateEmail, GatePassword), "unauthorized")

NextGate == GateBearer \/ GateNoBearer \/ GateRegister \/ GateLogin

SpecGate == Init /\ [][NextGate]_vars

\* the four failures of the access gate, told from the request and the store:
\* no header, a header that is not "Bearer <token>", a token that is
\* malformed, signed with another key or expired, and a token of no user
GateMustFail(cred, db, T) ==
    \/ cred.scheme # "Bearer"
    \/ cred.token.form # "jws"
    \/ cred.token.key # SECRET_KEY
    \/ cred.token.exp < Timegm(T)
    \/ \A u \in Rows(db) : u.id # cred.token.user_id

\* C5: on a protected route each of the four access-gate failures is answered
\* 401 with WWW-Authenticate: Bearer and detail "Invalid token" or "Invalid
\* user", and the route's body does not run.
C5_GateRejectsWith401Bearer ==
    ( /\ resp.request.route = "/genres"
      /\ trace.call_next
      /\ GateMustFail(resp.request.cred, users, now) )
    => /\ resp.response.status = 401
       /\ <<"WWW-Authenticate", "Bearer">> \in resp.response.headers
       /\ resp.response.detail \in {"Invalid token", "Invalid user"}
       /\ ~trace.handler

\* C6: the rate limiter acts before the access gate.  A request the limiter
\* rejects is answered 429 without token verification, store access or route
\* body; every other request is counted against the client's window and
\* passed on, whatever its credentials and whatever the gate then answers.
C6_LimiterBeforeGate ==
    [][\A rq \in GateRequests : \A build \in Builds :
          HttpRequest(GateClient, rq, build) =>
             IF /\ GateClient \in DOMAIN rate_limit_cache
                /\ now - rate_limit_cache[GateClient][2] < 60 * TicksPerSecond
                /\ rate_limit_cache[GateClient][1] >= 100
             THEN /\ resp'.response.status = 429
                  /\ ~trace'.call_next
                  /\ ~trace'.verify_token
                  /\ trace'.store_reads = 0
                  /\ trace'.store_writes = 0
                  /\ ~trace'.handler
                  /\ users' = users
                  /\ issued' = issued
             ELSE /\ trace'.call_next
                  /\ resp'.response.status # 429
                  /\ GateClient \in DOMAIN rate_limit_cache'
                  /\ rate_limit_cache'[GateClient][1] =
                        IF /\ GateClient \in DOMAIN rate_limit_cache
                           /\ now - rate_limit_cache[GateClient][2] < 60 * TicksPerSecond
                        THEN rate_limit_cache[GateClient][1] + 1
                        ELSE 1
                  /\ GateClient \in DOMAIN admitted'
                  /\ admitted'[GateClient][2] = rate_limit_cache'[GateClient][1]]_vars

\* a request carrying the token of a registered user was answered 429 with the
\* window full, and nothing behind the limiter ran
C6_Witness ==
    /\ resp.response.status = 429
    /\ issued # NoIssued
    /\ resp.request = GenresRequest(Bearer(issued.token))
    /\ Requests(GateClient) = 100
    /\ ~trace.verify_token
    /\ trace.store_reads = 0

\* requests answered 401 took the client's window from 99 to 100
C6_UnauthenticatedCounted ==
    /\ resp.response.status = 401
    /\ resp.seen.entry[1] = 99
    /\ Requests(GateClient) = 100

---------------------------------------------------------------------------
(* SpecToken: a user registers, logs in and presents tokens as time passes *)

TokenClient == "10.0.0.1"

\* the clock moves by one unit, by 2 seconds and by 30 minutes less 1 second
TokenSteps == {1, Sec(2), Minutes(ACCESS_TOKEN_EXPIRE_MINUTES) - Sec(1)}

\* the claims of token under a signature made with another key
Resign(token) == [token EXCEPT !.key = OtherKey]

\* the bearer tokens presented: the token of the last login, the same claims
\* signed with another key, and a string that is no token
PresentedTokens ==
    {GarbageToken}
    \cup (IF issued = NoIssued THEN {} ELSE {issued.token, Resign(issued.token)})

\* the limiter's window of the client is over, or is not full of MaxBurst
CanBurst(client_ip) ==
    IF Requests(client_ip) < MaxBurst
    THEN TRUE
    ELSE now - rate_limit_cache[client_ip][2] >= RATE_WINDOW

TokenRegister ==
    /\ CanBurst(TokenClient)
    /\ HttpRequest(TokenClient, RegisterRequest(GateEmail, GatePassword), "unauthorized")

TokenLogin ==
    /\ CanBurst(TokenClient)
    /\ HttpRequest(TokenClient, LoginRequest(GateEmail, GatePassword), "unauthorized")

TokenPresent ==
    /\ CanBurst(TokenClient)
    /\ \E token \in PresentedTokens :
          HttpRequest(TokenClient, GenresRequest(Bearer(token)), "unauthorized")

TokenClock == \E d \in TokenSteps : Tick(d)

NextToken == TokenRegister \/ TokenLogin \/ TokenPresent \/ TokenClock

SpecToken == Init /\ [][NextToken]_vars

\* C7: the token a login issued at instant T for user u expires 30 minutes
\* after T (in whole seconds, as a JWT carries it); verify_token returns u's
\* claims at every instant up to T + 30 min - 1 s and raises the 401 "Invalid
\* token" at every instant from T + 30 min + 1 s on.
C7_TokenLifetime ==
    issued # NoIssued =>
       /\ issued.token.exp = (issued.at + 30 * 60 * TicksPerSecond) \div TicksPerSecond
       /\ now <= issued.at + 30 * 60 * TicksPerSecond - TicksPerSecond =>
             /\ verify_token(issued.token, now).ok
             /\ verify_token(issued.token, now).user_id = issued.user_id
       /\ now >= issued.at + 30 * 60 * TicksPerSecond + TicksPerSecond =>
             /\ ~verify_token(issued.token, now).ok
             /\ verify_token(issued.token, now).error.status = 401
             /\ verify_token(issued.token, now).error.detail = "Invalid token"

\* a token issued between two whole seconds was accepted on a protected
\* route exactly 1 second before T + 30 min
C7_Witness ==
    /\ issued # NoIssued
    /\ issued.at % TicksPerSecond # 0
    /\ now = issued.at + 30 * 60 * TicksPerSecond - TicksPerSecond
    /\ resp.request = GenresRequest(Bearer(issued.token))
    /\ resp.response.status = 200
    /\ trace.handler

\* the same token was refused on a protected route 1 second after T + 30 min
C7_ExpiredWitness ==
    /\ issued # NoIssued
    /\ now = issued.at + 30 * 60 * TicksPerSecond + TicksPerSecond
    /\ resp.request = GenresRequest(Bearer(issued.token))
    /\ resp.response.status = 401
    /\ trace.cause = "expired"

\* tokens signed with another key, whatever their claims
ForeignTokens ==
    {jwt_encode(u, e, OtherKey) :
        u \in {0, 1, 2}, e \in {0, now, now + Minutes(ACCESS_TOKEN_EXPIRE_MINUTES)}}

\* C8: verify_token fails for every token not signed with SECRET_KEY whatever
\* its claims, and every failure (malformed, signature, expired) is the same
\* 401 "Invalid token" with the same headers, in verify_token's result and in
\* the response of the request that carried the token.
C8_UniformTokenFailure ==
    /\ \A t \in ForeignTokens \cup PresentedTokens :
          /\ t.key # "my-super-secret-key-12345-for-jwt-tokens"
                => ~verify_token(t, now).ok
          /\ ~verify_token(t, now).ok =>
                verify_token(t, now).error =
                   [status |-> 401, detail |-> "Invalid token",
                    headers |-> {<<"WWW-Authenticate", "Bearer">>},
                    body |-> NoBody]
    /\ (trace.verify_token /\ trace.cause # "ok") =>
          /\ trace.cause \in {"malformed", "signature", "expired"}
          /\ resp.response = [status |-> 401, detail |-> "Invalid token",
                              headers |-> {<<"WWW-Authenticate", "Bearer">>},
                              body |-> NoBody]
          /\ ~trace.handler

\* the issued token has expired, a string that is no token is malformed, and
\* the request that carried the issued claims under another key was refused
C8_Witness ==
    /\ issued # NoIssued
    /\ jwt_decode(issued.token, SECRET_KEY, now) = "expired"
    /\ jwt_decode(GarbageToken, SECRET_KEY, now) = "malformed"
    /\ resp.request = GenresRequest(Bearer(Resign(issued.token)))
    /\ trace.cause = "signature"
    /\ resp.response.status = 401

---------------------------------------------------------------------------
(* SpecUsers: one client sending /register and /login requests *)

UsersClient == "10.0.0.1"

UsersRegister ==
    \E email \in Emails : \E password \in Passwords :
        HttpRequest(UsersClient, RegisterRequest(email, password), "unauthorized")

UsersLogin ==
    \E email \in Emails : \E password \in Passwords :
        HttpRequest(UsersClient, LoginRequest(email, password), "unauthorized")

NextUsers == UsersRegister \/ UsersLogin

SpecUsers == Init /\ [][NextUsers]_vars

\* the limiter answers the client's next request itself (429)
LimiterFull(client_ip) ==
    /\ client_ip \in DOMAIN rate_limit_cache
    /\ now - rate_limit_cache[client_ip][2] < 60 * TicksPerSecond
    /\ rate_limit_cache[client_ip][1] >= 100

\* C9: the store never holds two users with one email, and a register
\* request (one that reaches the route) for an email that has a user is
\* answered 400 and leaves the store as it was, whatever the password.
C9_OneUserPerEmail ==
    /\ [](\A i, j \in 1..Len(users) : users[i].email = users[j].email => i = j)
    /\ [][\A email \in Emails : \A password \in Passwords :
            ( /\ \E i \in 1..Len(users) : users[i].email = email
              /\ ~LimiterFull(UsersClient)
              /\ HttpRequest(UsersClient, RegisterRequest(email, password),
                             "unauthorized") )
            => /\ resp'.response.status = 400
               /\ users' = users]_vars

\* a second registration of an email, with another password than the stored
\* digest's, was answered 400
C9_Witness ==
    /\ resp.request.route = "/register"
    /\ resp.response.status = 400
    /\ \E i \in 1..Len(users) :
          /\ users[i].email = resp.request.email
          /\ users[i].hashed_password =
                "c592df4a86933b92addc9842402ddf198c638ea9be58916ee6e3734e1e3152f8"
          /\ resp.request.password = "pw2"

\* C10: a login request (one that reaches the route) returns a bearer token
\* with claim user_id = the user's id exactly when the email has a user whose
\* stored digest is the digest of the password; otherwise, unknown email or
\* wrong password alike, the response is the one 401 "Invalid credentials",
\* no token is issued; the store is unchanged either way.
C10_LoginIffCredentialsMatch ==
    [][\A email \in Emails : \A password \in Passwords :
          ( /\ ~LimiterFull(UsersClient)
            /\ HttpRequest(UsersClient, LoginRequest(email, password),
                           "unauthorized") )
          => /\ users' = users
             /\ IF \E i \in 1..Len(users) :
                      /\ users[i].email = email
                      /\ users[i].hashed_password = Sha256Hex(password)
                THEN /\ resp'.response.status = 200
                     /\ resp'.response.body.token_type = "bearer"
                     /\ resp'.response.body.access_token.form = "jws"
                     /\ \E i \in 1..Len(users) :
                           /\ users[i].email = email
                           /\ resp'.response.body.access_token.user_id = users[i].id
                     /\ issued'.token = resp'.response.body.access_token
                ELSE /\ resp'.response =
                           [status |-> 401, detail |-> "Invalid credentials",
                            headers |-> {}, body |-> NoBody]
                     /\ issued' = issued]_vars

\* a login with the wrong password for a registered email was refused after
\* a login had succeeded
C10_Witness ==
    /\ resp.request.route = "/login"
    /\ resp.response.status = 401
    /\ resp.response.detail = "Invalid credentials"
    /\ \E i \in 1..Len(users) :
          /\ users[i].email = resp.request.email
          /\ users[i].hashed_password # Sha256Hex(resp.request.password)
    /\ issued # NoIssued

\* a login with an email no user has was refused with the same response
C10_UnknownEmailWitness ==
    /\ resp.request.route = "/login"
    /\ resp.response.status = 401
    /\ resp.response.detail = "Invalid credentials"
    /\ Len(users) > 0
    /\ \A i \in 1..Len(users) : users[i].email # resp.request.email

---------------------------------------------------------------------------
(* SpecLibrary: two registered users work on the library tables *)

LibraryClient == "10.0.0.1"

\* the service starts on a database file that holds two accounts
LibraryUsers ==
    create_user(create_user(<<>>, "a@x.com", "pw1").db, "b@x.com", "pw2").db

InitLibrary ==
    /\ now = 0
    /\ ticks = 0
    /\ rate_limit_cache = EmptyDict
    /\ admitted = EmptyDict
    /\ users = LibraryUsers
    /\ issued = NoIssued
    /\ resp = NoResp
    /\ trace = NoTrace
    /\ tasks = [r \in Slots |-> IdleTask]
    /\ running = 0
    /\ library = EmptyLibrary
    /\ view = NoView
    /\ simple_cache = SimpleCache
    /\ cache_log = NoCacheLog

\* the tokens the two users hold from a login at instant 0
LibraryTokens == {create_token(users[i].id, 0) : i \in 1..Len(users)}

LibraryCredentials == {Bearer(token) : token \in LibraryTokens}

\* One request to a library route from the middleware to the response:
\* main.py:84-103, get_current_user and the route
HttpLibraryRequest(client_ip, rq, build) ==
    LET rl == rate_limit_middleware(rate_limit_cache, client_ip, now)
        g == get_current_user(rq.cred, users, now, build)
        out == library_route(rq, g.user, library, users)
        seen == [present |-> client_ip \in DOMAIN rate_limit_cache,
                 entry |-> ReadEntry(rate_limit_cache, client_ip)]
        request == Request(rq.route, rq.cred, "", "")
        tr == [NoTrace EXCEPT !.call_next = TRUE,
                              !.verify_token = g.verify_token,
                              !.cause = g.cause,
                              !.store_reads = g.store_reads,
                              !.handler = g.ok]
    IN  /\ rate_limit_cache' = rl.cache
        /\ IF ~rl.admit
           THEN /\ resp' = [client |-> client_ip, request |-> request,
                            seen |-> seen, response |-> TooManyRequests]
                /\ trace' = NoTrace
                /\ view' = NoView
                /\ UNCHANGED <<admitted, library>>
           ELSE /\ admitted' = CountAdmitted(admitted, client_ip,
                                             rl.cache[client_ip][2])
                /\ trace' = tr
                /\ IF ~g.ok
                   THEN /\ resp' = [client |-> client_ip, request |-> request,
                                    seen |-> seen, response |-> g.error]
                        /\ view' = NoView
                        /\ UNCHANGED library
                   ELSE /\ resp' = [client |-> client_ip, request |-> request,
                                    seen |-> seen,
                                    response |->
                                        IF out.status = 200
                                        THEN Ok(NoBody)
                                        ELSE Response(out.status, out.detail,
                                                      NoHeaders)]
                        /\ view' = [user |-> g.user.id, route |-> rq.route,
                                    book_id |-> rq.book_id,
                                    status |-> out.status, books |-> out.books]
                        /\ library' = out.lib
        /\ UNCHANGED <<now, ticks, users, issued, tasks, running,
                       simple_cache, cache_log>>

BookIds == 1..MaxBooks
AuthorIds == 1..MaxNotes

LibCreateAuthor ==
    \E cred \in LibraryCredentials :
        /\ CanBurst(LibraryClient)
        /\ library.authors < MaxNotes
        /\ HttpLibraryRequest(LibraryClient,
                              BookRequest("POST /authors", cred, 0, 0),
                              "unauthorized")

LibCreateBook ==
    \E cred \in LibraryCredentials : \E author_id \in AuthorIds :
        /\ CanBurst(LibraryClient)
        /\ Len(library.books) < MaxBooks
        /\ HttpLibraryRequest(LibraryClient,
                              BookRequest("POST /books", cred, 0, author_id),
                              "unauthorized")

LibCreateComment ==
    \E cred \in LibraryCredentials : \E book_id \in BookIds :
        /\ CanBurst(LibraryClient)
        /\ Len(library.comments) < MaxNotes
        /\ HttpLibraryRequest(LibraryClient,
                              BookRequest("POST /comments", cred, book_id, 0),
                              "unauthorized")

LibCreateNote ==
    \E cred \in LibraryCredentials : \E book_id \in BookIds :
        /\ CanBurst(LibraryClient)
        /\ Len(library.notes) < MaxNotes
        /\ HttpLibraryRequest(LibraryClient,
                              BookRequest("POST /notes", cred, book_id, 0),
                              "unauthorized")

LibGetBooks ==
    \E cred \in LibraryCredentials \cup {NoCredentials} :
        /\ CanBurst(LibraryClient)
        /\ HttpLibraryRequest(LibraryClient,
                              BookRequest("GET /books", cred, 0, 0),
                              "unauthorized")

LibGetBooksFiltered ==
    \E cred \in LibraryCredentials : \E author_id \in {0} \cup AuthorIds :
        /\ CanBurst(LibraryClient)
        /\ HttpLibraryRequest(LibraryClient,
                              BookRequest("GET /books/filter", cred, 0,
                                          author_id),
                              "unauthorized")

LibGetBook ==
    \E cred \in LibraryCredentials : \E book_id \in BookIds :
        /\ CanBurst(LibraryClient)
        /\ HttpLibraryRequest(LibraryClient,
                              BookRequest("GET /books/{book_id}", cred,
                                          book_id, 0),
                              "unauthorized")

LibGetBookComments ==
    \E cred \in LibraryCredentials : \E book_id \in BookIds :
        /\ CanBurst(LibraryClient)
        /\ HttpLibraryRequest(LibraryClient,
                              BookRequest("GET /books/{book_id}/comments",
                                          cred, book_id, 0),
                              "unauthorized")

LibExportCsv ==
    \E cred \in LibraryCredentials :
        /\ CanBurst(LibraryClient)
        /\ HttpLibraryRequest(LibraryClient,
                              BookRequest("GET /export/books/csv", cred, 0, 0),
                              "unauthorized")

LibExportJson ==
    \E cred \in LibraryCredentials :
        /\ CanBurst(LibraryClient)
        /\ HttpLibraryRequest(LibraryClient,
                              BookRequest("GET /export/books/json", cred, 0, 0),
                              "unauthorized")

LibClock == Tick(RATE_WINDOW)

NextLibrary ==
    \/ LibCreateComment
    \/ LibCreateNote
    \/ LibGetBookComments
    \/ LibCreateAuthor
    \/ LibCreateBook
    \/ LibGetBooks
    \/ LibGetBooksFiltered
    \/ LibGetBook
    \/ LibExportCsv
    \/ LibExportJson
    \/ LibClock

SpecLibrary == InitLibrary /\ [][NextLibrary]_vars

\* C11: every book in a response of a library route was created by the user
\* the response is returned to: each user sees only their own books, after
\* any sequence of book, comment and note creations by any users.
C11_OnlyOwnBooks ==
    \A i \in 1..Len(view.books) : view.books[i].owner = view.user

\* the part of C11 that the code keeps: the routes that list or fetch books
\* (GET /books, /books/filter, /books/{book_id}, the exports, POST /books)
\* return only books of the caller
C11_BookRoutesOnlyOwn ==
    view.route \notin {"POST /comments", "POST /notes",
                       "GET /books/{book_id}/comments"}
        => \A i \in 1..Len(view.books) : view.books[i].owner = view.user

---------------------------------------------------------------------------
(* The credential hasher on its own and behind register and login *)

\* SHA-256 digests computed outside the model, as lowercase hexadecimal
Sha256Known ==
    [ pw1 |-> "c592df4a86933b92addc9842402ddf198c638ea9be58916ee6e3734e1e3152f8",
      pw2 |-> "93915a0a4bf8f634cb1856494dd4304472ad46b9827f541f76b6761c49cc55b0" ]

KnownDigest(password) ==
    IF password = "pw1" THEN Sha256Known.pw1 ELSE Sha256Known.pw2

C12_MismatchWitness ==
    /\ resp.request.route = "/login"
    /\ resp.response.status = 401
    /\ \E i \in 1..Len(users) :
          /\ users[i].email = resp.request.email
          /\ ~verify_password(resp.request.password, users[i].hashed_password)

---------------------------------------------------------------------------
(* The rate-limit table over time (under Spec) *)

\* C13: entries of the rate-limit table are never evicted: the key set only
\* grows, and a request from address c creates or changes only c's entry
\* and leaves the entry of every other address as it was.
C13_NeverEvicted ==
    [][ /\ DOMAIN rate_limit_cache \subseteq DOMAIN rate_limit_cache'
        /\ \A c \in Clients :
              HttpRequest(c, RootRequest, "unauthorized")
              => /\ DOMAIN rate_limit_cache' = DOMAIN rate_limit_cache \cup {c}
                 /\ \A other \in DOMAIN rate_limit_cache \ {c} :
                       /\ other \in DOMAIN rate_limit_cache'
                       /\ rate_limit_cache'[other] = rate_limit_cache[other]
      ]_vars

\* an address whose window ended long ago still has its entry while the
\* other address has just been counted
C13_Witness ==
    /\ resp.response.status = 200
    /\ resp.client \in DOMAIN rate_limit_cache
    /\ rate_limit_cache[resp.client][2] = now
    /\ \E other \in DOMAIN rate_limit_cache \ {resp.client} :
          now - rate_limit_cache[other][2] > 60 * TicksPerSecond

\* C14: throttling is never permanent.  A request is rejected only less
\* than 1 minute after the start of the window in which the address reached
\* the threshold (the window of its last admitted request), the rejection
\* does not move window_start, and a request that arrives 1 minute or more
\* after that start is admitted.
C14_ThrottlingEnds ==
    [][\A c \in Clients :
          ( /\ c \in DOMAIN rate_limit_cache
            /\ c \in DOMAIN admitted
            /\ HttpRequest(c, RootRequest, "unauthorized") )
          => /\ resp'.response.status = 429
                => /\ now - admitted[c][1] < 60 * TicksPerSecond
                   /\ admitted[c][2] = 100
                   /\ c \in DOMAIN rate_limit_cache'
                   /\ rate_limit_cache'[c][2] = admitted[c][1]
             /\ now - admitted[c][1] >= 60 * TicksPerSecond
                => /\ resp'.response.status = 200
                   /\ trace'.call_next]_vars

\* an address that had filled its window is admitted by a request that
\* arrives later than 1 minute after the window's start
C14_Witness ==
    /\ resp.response.status = 200
    /\ resp.seen.present
    /\ resp.seen.entry[1] >= 100
    /\ now - resp.seen.entry[2] > 60 * TicksPerSecond
    /\ admitted[resp.client] = <<now, 1>>

\* an address is rejected in the last instant of its window
C14_LastRejection ==
    /\ resp.response.status = 429
    /\ now - rate_limit_cache[resp.client][2] = 60 * TicksPerSecond - 1

---------------------------------------------------------------------------
(* SpecCache: calls of SimpleCache.get and SimpleCache.set, one after       *)
(* another, on the module's cache object, and the cached author list         *)

CacheKeys == {"all_authors", "all_genres"}

\* lists that are cached: list(Author.select()) / list(Genre.select())
CacheValues == {<<>>, <<1>>}

\* the clock moves by one unit and by 5 minutes less one unit
CacheSteps == {1, CACHE_TTL - 1}

\* cache.get(key)
CacheGet(key) ==
    LET r == SimpleCache_get(simple_cache, key, now)
    IN  /\ simple_cache' = r.self
        /\ cache_log' = [cache_log EXCEPT
                            !.got = [key |-> key, ret |-> r.ret, at |-> now,
                                     present |-> key \in DOMAIN simple_cache.cache]]
        /\ UNCHANGED <<now, ticks, rate_limit_cache, admitted, users, issued,
                       resp, trace, tasks, running, library, view>>

\* cache.set(key, value)
CacheSet(key, value) ==
    /\ simple_cache' = SimpleCache_set(simple_cache, key, value, now)
    /\ cache_log' = [cache_log EXCEPT
                        !.sets = DictSet(@, key, <<value, now>>)]
    /\ UNCHANGED <<now, ticks, rate_limit_cache, admitted, users, issued,
                   resp, trace, tasks, running, library, view>>

\* crud.get_all_authors_cached()
CachedAuthors ==
    LET r == get_all_authors_cached(simple_cache, library, now)
    IN  /\ simple_cache' = r.self
        /\ cache_log' =
              [got |-> [key |-> "all_authors", ret |-> r.got, at |-> now,
                        present |-> "all_authors" \in DOMAIN simple_cache.cache],
               sets |-> IF r.stored
                        THEN DictSet(cache_log.sets, "all_authors",
                                     <<r.authors, now>>)
                        ELSE cache_log.sets]
        /\ UNCHANGED <<now, ticks, rate_limit_cache, admitted, users, issued,
                       resp, trace, tasks, running, library, view>>

\* crud.create_author(name, bio)
CacheCreateAuthor ==
    /\ library.authors < MaxNotes
    /\ library' = crud_create_author(library)
    /\ UNCHANGED <<now, ticks, rate_limit_cache, admitted, users, issued,
                   resp, trace, tasks, running, view, simple_cache, cache_log>>

CacheGets == \E key \in CacheKeys : CacheGet(key)
CacheSets == \E key \in CacheKeys : \E value \in CacheValues : CacheSet(key, value)
CacheClock == \E d \in CacheSteps : Tick(d)

NextCache ==
    CacheGets \/ CacheSets \/ CachedAuthors \/ CacheCreateAuthor \/ CacheClock

SpecCache == Init /\ [][NextCache]_vars

\* the last set of key happened less than 5 minutes ago
SetIsFresh(key) ==
    /\ key \in DOMAIN cache_log.sets
    /\ now - cache_log.sets[key][2] < 5 * 60 * TicksPerSecond

\* what a get of key must return and do in this step
GetObeys(key) ==
    /\ cache_log'.got.key = key
    /\ cache_log'.got.ret.raised = ""
    /\ IF SetIsFresh(key)
       THEN /\ ~cache_log'.got.ret.none
            /\ cache_log'.got.ret.value = cache_log.sets[key][1]
       ELSE /\ cache_log'.got.ret.none
            /\ cache_log'.got.ret.value = <<>>

\* C15: _cache and _timestamps have the same key set in every state; a
\* get(key) returns the value of the latest set(key) when less than 5
\* minutes have passed since that set and leaves the cache as it was, and
\* otherwise returns None and leaves the key in neither map (the other keys
\* stay); get_all_authors_cached never returns an expired list.
C15_CacheConsistent ==
    /\ [](DOMAIN simple_cache.cache = DOMAIN simple_cache.timestamps)
    /\ [][ /\ \A key \in CacheKeys :
                CacheGet(key)
                => /\ GetObeys(key)
                   /\ IF SetIsFresh(key)
                      THEN simple_cache' = simple_cache
                      ELSE /\ key \notin DOMAIN simple_cache'.cache
                           /\ key \notin DOMAIN simple_cache'.timestamps
                           /\ \A k \in DOMAIN simple_cache.cache \ {key} :
                                 /\ k \in DOMAIN simple_cache'.cache
                                 /\ k \in DOMAIN simple_cache'.timestamps
                                 /\ simple_cache'.cache[k] = simple_cache.cache[k]
                                 /\ simple_cache'.timestamps[k] =
                                        simple_cache.timestamps[k]
           /\ CachedAuthors
                => /\ GetObeys("all_authors")
                   /\ "all_authors" \in DOMAIN simple_cache'.cache
                   /\ now - simple_cache'.timestamps["all_authors"]
                         < 5 * 60 * TicksPerSecond
         ]_vars

\* a get exactly 5 minutes after the set found the key, returned None and
\* removed it, while the other key stayed cached
C15_Witness ==
    /\ cache_log.got.present
    /\ cache_log.got.ret.none
    /\ cache_log.got.key \in DOMAIN cache_log.sets
    /\ cache_log.got.at - cache_log.sets[cache_log.got.key][2]
          = 5 * 60 * TicksPerSecond
    /\ cache_log.got.key \notin DOMAIN simple_cache.cache
    /\ DOMAIN simple_cache.cache # {}

\* a get one clock unit before expiry returned the cached value
C15_HitWitness ==
    /\ ~cache_log.got.ret.none
    /\ cache_log.got.ret.value = <<1>>
    /\ cache_log.got.at - cache_log.sets[cache_log.got.key][2]
          = 5 * 60 * TicksPerSecond - 1

=============================================================================
